---------------------------- MODULE Spec2Model ----------------------------
(***************************************************************************)
(* Model of minimal-cost-shopping.ipynb: the notebook generates random     *)
(* parameters C, Q, m, builds the integer program                          *)
(*     minimize C*x  subject to  Q*x >= m, x >= 0, x integer               *)
(* with CVXPY, solves it once and prints the solution, the fulfilled       *)
(* requirements, the number of goods and the total cost.                   *)
(*                                                                         *)
(* Floating-point values (x.value, sol, Q.dot(x_opt), C.dot(x.value)) are  *)
(* fixed-point integers in units of 1/Scale.  The solver returns an exact  *)
(* optimum of the integer program with every entry perturbed by at most    *)
(* one unit (the 1e-8 noise visible in the recorded output).  When the     *)
(* status is not optimal CVXPY leaves x.value = None, modelled as <<>>.    *)
(* A cell that raises ends the run (pc = "crashed").                       *)
(***************************************************************************)
EXTENDS Integers, Sequences, FiniteSets, TLC

VARIABLES pc, C, Q, m, prob, status, sol, x, x_opt, out,
          shown, fulfilled, goods, total, solveCalls

vars == <<pc, C, Q, m, prob, status, sol, x, x_opt, out,
          shown, fulfilled, goods, total, solveCalls>>

\* ---- sizes of the model -------------------------------------------------
\* Type of goods available (10 in the notebook, smaller here).
i == 2
\* Type of needs to be fulfilled (5 in the notebook, smaller here).
j == 1
\* Largest cost the model's generator draws (9 in the notebook).
MaxCost == 2
\* Largest requirement the model's generator draws (99 in the notebook).
MaxTarget == 1
\* Fixed-point resolution: one unit is 1/Scale.
Scale == 100000

\* ---- program constants --------------------------------------------------
\* np.random.randint(1,10,i): low inclusive, high exclusive.
CostLow == 1
CostHigh == 10
\* np.random.randint(1,100,(j))
TargetLow == 1
TargetHigh == 100

Min2(a, b) == IF a <= b THEN a ELSE b

\* A generator range starting at 0 instead of 1.
CostRangeFromZero == 0..Min2(CostHigh - 1, MaxCost)
CostRange == CostLow..Min2(CostHigh - 1, MaxCost)
TargetRange == TargetLow..Min2(TargetHigh - 1, MaxTarget)
QChoices == {0, 1, 2}

\* The noise the solver leaves on an entry, in units of 1/Scale.
Noise == {-1, 0, 1}

\* ---- vectors ------------------------------------------------------------
RECURSIVE SumTo(_, _)
SumTo(v, n) == IF n = 0 THEN 0 ELSE v[n] + SumTo(v, n - 1)

\* ndarray.sum()
Sum(v) == SumTo(v, Len(v))

RECURSIVE DotTo(_, _, _)
DotTo(a, b, n) == IF n = 0 THEN 0 ELSE a[n] * b[n] + DotTo(a, b, n - 1)

\* a.dot(b) and a*b for two vectors
Dot(a, b) == DotTo(a, b, Len(a))

\* A.dot(v) and A*v for a matrix (a sequence of rows) and a vector
MatVec(A, v) == [r \in 1..Len(A) |-> Dot(A[r], v)]

RECURSIVE MaxTo(_, _)
MaxTo(v, n) == IF n = 0 THEN 0 ELSE
                 LET rest == MaxTo(v, n - 1) IN IF v[n] > rest THEN v[n] ELSE rest

\* ---- conversions --------------------------------------------------------
\* The nearest integer of a fixed-point value.
Round(v) == (2 * v + Scale) \div (2 * Scale)

\* ndarray.astype(int): the C cast, which drops the fraction (toward zero).
AsTypeInt(v) == IF v >= 0 THEN v \div Scale ELSE -((-v) \div Scale)

\* The nearest-integer vector.
RoundEach(v) == [g \in 1..Len(v) |-> Round(v[g])]

\* v.astype(int) for a vector
TruncEach(v) == [g \in 1..Len(v) |-> AsTypeInt(v[g])]

\* What np.set_printoptions(precision=2, suppress=True) shows of a float
\* array entry: the value rounded to hundredths (here: in hundredths).
Printed2(v) == (200 * v + Scale) \div (2 * Scale)

\* ---- the integer program ------------------------------------------------
NoProblem == [objective |-> <<>>, A |-> <<>>, b |-> <<>>, integer |-> FALSE]

\* constraints = [Q*x >= m, x >= 0] with == in place of >=.
ConstraintsEq(p, v) ==
    /\ \A r \in 1..Len(p.A) : Dot(p.A[r], v) = p.b[r]
    /\ \A g \in 1..Len(v) : v[g] >= 0

\* constraints = [Q*x >= m, x >= 0] with <= in place of the first >=.
ConstraintsLe(p, v) ==
    /\ \A r \in 1..Len(p.A) : Dot(p.A[r], v) <= p.b[r]
    /\ \A g \in 1..Len(v) : v[g] >= 0

\* constraints = [Q*x >= m, x >= 0]
ConstraintsHold(p, v) ==
    /\ \A r \in 1..Len(p.A) : Dot(p.A[r], v) >= p.b[r]
    /\ \A g \in 1..Len(v) : v[g] >= 0

\* Integer points that can be optimal: with non-negative costs and every
\* positive entry of A at least 1, no entry of an optimum exceeds max(b).
Box(p) == [1..Len(p.objective) -> 0..MaxTo(p.b, Len(p.b))]

FeasibleSet(p) == {v \in Box(p) : ConstraintsHold(p, v)}

\* The least element of a non-empty set of integers.
Least(S) == CHOOSE a \in S : \A b \in S : a <= b

\* objective = cvx.Minimize(C*x)
Objective(p, v) == Dot(p.objective, v)

\* The objective decreases without limit along some direction that keeps
\* the constraints.
Unbounded(p) ==
    \E d \in [1..Len(p.objective) -> {0, 1}] :
        /\ Objective(p, d) < 0
        /\ \A r \in 1..Len(p.A) : Dot(p.A[r], d) >= 0

\* The least objective value over a non-empty set F of feasible points.
OptValueOver(p, F) == Least({Objective(p, v) : v \in F})

\* The optimal value of a feasible, bounded problem.
OptValue(p) == OptValueOver(p, FeasibleSet(p))

\* The optimal points among the feasible points F.
OptimalOver(p, F) == LET best == OptValueOver(p, F)
                     IN  {v \in F : Objective(p, v) = best}

\* prob.status after prob.solve(), given the feasible points F.
StatusOver(p, F) ==
    IF F = {} THEN "infeasible"
    ELSE IF Unbounded(p) THEN "unbounded"
    ELSE "optimal"

\* ---- the cells ----------------------------------------------------------
Init ==
    /\ pc = "start"
    /\ C = <<>> /\ Q = <<>> /\ m = <<>>
    /\ prob = NoProblem
    /\ status = "none"
    /\ sol = [inf |-> FALSE, val |-> 0]
    /\ x = <<>> /\ x_opt = <<>>
    /\ out = <<>>
    /\ shown = <<>> /\ fulfilled = <<>>
    /\ goods = 0 /\ total = 0
    /\ solveCalls = 0

\* Random generation of C, Q and M, and the prints of the parameters.
Generate ==
    /\ pc = "start"
    /\ \E c \in [1..i -> CostRange], q \in [1..j -> [1..i -> QChoices]],
          t \in [1..j -> TargetRange] :
          /\ C' = c
          /\ Q' = q
          /\ m' = t
    /\ out' = Append(out, "parameters")
    /\ pc' = "generated"
    /\ UNCHANGED <<prob, status, sol, x, x_opt, shown, fulfilled, goods, total,
                   solveCalls>>

\* Construct the problem.
Construct ==
    /\ pc = "generated"
    /\ prob' = [objective |-> C, A |-> Q, b |-> m, integer |-> TRUE]
    /\ pc' = "constructed"
    /\ UNCHANGED <<C, Q, m, status, sol, x, x_opt, out, shown, fulfilled, goods,
                   total, solveCalls>>

\* Solve the problem: sol = prob.solve(), then the branch on prob.status.
\* E is the set of noise patterns the solver may leave on its answer.
SolveWith(E) ==
    /\ pc = "constructed"
    /\ solveCalls' = solveCalls + 1
    /\ LET F == FeasibleSet(prob)
           st == StatusOver(prob, F)
       IN  /\ status' = st
           /\ IF st = "optimal"
              THEN \E k \in OptimalOver(prob, F), e \in E :
                     /\ x' = [g \in 1..Len(k) |-> Scale * k[g] + e[g]]
                     /\ sol' = [inf |-> FALSE, val |-> Objective(prob, x')]
                     /\ out' = Append(out, "SOLUTION FOUND")
              ELSE /\ x' = <<>>
                   /\ sol' = [inf |-> TRUE, val |-> 0]
                   /\ out' = Append(out, "ERROR")
    /\ pc' = "solved"
    /\ UNCHANGED <<C, Q, m, prob, x_opt, shown, fulfilled, goods, total>>

Solve == SolveWith([1..Len(prob.objective) -> Noise])

\* The same cell with a solver that leaves no noise on its answer.
SolveExact == SolveWith({[g \in 1..Len(prob.objective) |-> 0]})

\* x.value[np.newaxis] raises TypeError when x.value is None.
AlwaysSubscriptable(v) == TRUE
Subscriptable(v) == v # <<>>

\* x_opt = x.value[np.newaxis].T and the print of x_opt.astype(int)
ShowSolution ==
    /\ pc = "solved"
    /\ IF Subscriptable(x)
       THEN /\ x_opt' = x
            /\ shown' = TruncEach(x)
            /\ out' = Append(out, "x_optimal")
            /\ pc' = "shown"
       ELSE /\ pc' = "crashed"
            /\ UNCHANGED <<x_opt, shown, out>>
    /\ UNCHANGED <<C, Q, m, prob, status, sol, x, fulfilled, goods, total,
                   solveCalls>>

\* The prints of m and of Q.dot(x_opt)
ShowFulfilled ==
    /\ pc = "shown"
    /\ fulfilled' = [r \in 1..Len(Q) |-> Printed2(MatVec(Q, x_opt)[r])]
    /\ out' = out \o <<"m", "m_optimal">>
    /\ pc' = "fulfilled"
    /\ UNCHANGED <<C, Q, m, prob, status, sol, x, x_opt, shown, goods, total,
                   solveCalls>>

\* The prints of x_opt.astype(int).sum() and of C.dot(x.value)
ShowTotals ==
    /\ pc = "fulfilled"
    /\ goods' = Sum(TruncEach(x_opt))
    /\ total' = Dot(C, x)
    /\ out' = out \o <<"goods", "cost">>
    /\ pc' = "done"
    /\ UNCHANGED <<C, Q, m, prob, status, sol, x, x_opt, shown, fulfilled,
                   solveCalls>>

Next == Generate \/ Construct \/ Solve \/ ShowSolution \/ ShowFulfilled \/ ShowTotals

Spec == Init /\ [][Next]_vars

\* The run with an exact solver.
NextExact ==
    Generate \/ Construct \/ SolveExact \/ ShowSolution \/ ShowFulfilled \/ ShowTotals

SpecExact == Init /\ [][NextExact]_vars

\* The encoded problem alone: any positive costs, any Q, any targets >= 0.
InitEnc ==
    /\ pc = "generated"
    /\ C \in [1..i -> CostRange]
    /\ Q \in [1..j -> [1..i -> QChoices]]
    /\ m \in [1..j -> 0..MaxTarget]
    /\ prob = NoProblem
    /\ status = "none"
    /\ sol = [inf |-> FALSE, val |-> 0]
    /\ x = <<>> /\ x_opt = <<>>
    /\ out = <<"parameters">>
    /\ shown = <<>> /\ fulfilled = <<>>
    /\ goods = 0 /\ total = 0
    /\ solveCalls = 0

NextEnc == Construct \/ SolveExact

SpecEnc == InitEnc /\ [][NextEnc]_vars


\* ---- the recorded run ---------------------------------------------------
\* The parameters printed by the recorded run of the notebook.
ExampleC == <<8, 7, 4, 7, 9, 5, 9, 3, 4, 7>>
ExampleM == <<75, 94, 86, 43, 68>>
ExampleQ == << <<0, 0, 2, 1, 2, 1, 2, 1, 0, 2>>,
               <<0, 2, 0, 1, 1, 1, 1, 2, 2, 1>>,
               <<1, 1, 2, 1, 1, 2, 0, 1, 1, 0>>,
               <<2, 1, 0, 1, 2, 1, 0, 0, 1, 0>>,
               <<2, 0, 2, 2, 2, 1, 1, 1, 1, 2>> >>

\* The prints of the recorded run: x_optimal, m_optimal (in hundredths, as
\* Printed2 gives them), the number of goods and the objective value, which
\* the notebook shows as 300.0000001467965.
RecordedShown == <<0, 0, 1, 0, 8, 25, 0, 29, 0, 0>>
RecordedFulfilled == <<7500, 9400, 9100, 4300, 7500>>
RecordedGoods == 63
RecordedObjective == 300

\* The values of an entry of x.value that astype(int) prints as n: n itself,
\* n plus noise, or the next integer less noise.
Candidate(n, choice) ==
    IF choice = 0 THEN Scale * n
    ELSE IF choice = 1 THEN Scale * n + 1
    ELSE Scale * (n + 1) - 1

\* The solver answers that give the prints of the recorded run.
RecordedAnswers ==
    LET p == [objective |-> ExampleC, A |-> ExampleQ, b |-> ExampleM,
              integer |-> TRUE]
    IN  {v \in {[g \in 1..Len(RecordedShown) |-> Candidate(RecordedShown[g], ch[g])] :
                   ch \in [1..Len(RecordedShown) -> 0..2]} :
           /\ [r \in 1..Len(ExampleQ) |-> Printed2(MatVec(ExampleQ, v)[r])]
                 = RecordedFulfilled
           /\ Round(Objective(p, v)) = RecordedObjective
           /\ Objective(p, v) > Scale * RecordedObjective}

InitExample ==
    /\ pc = "generated"
    /\ C = ExampleC /\ Q = ExampleQ /\ m = ExampleM
    /\ prob = NoProblem
    /\ status = "none"
    /\ sol = [inf |-> FALSE, val |-> 0]
    /\ x = <<>> /\ x_opt = <<>>
    /\ out = <<"parameters">>
    /\ shown = <<>> /\ fulfilled = <<>>
    /\ goods = 0 /\ total = 0
    /\ solveCalls = 0

\* The solve cell of the recorded run: "SOLUTION FOUND!", status optimal.
SolveRecorded ==
    /\ pc = "constructed"
    /\ prob.objective = ExampleC /\ prob.A = ExampleQ /\ prob.b = ExampleM
    /\ solveCalls' = solveCalls + 1
    /\ status' = "optimal"
    /\ \E v \in RecordedAnswers :
          /\ x' = v
          /\ sol' = [inf |-> FALSE, val |-> Objective(prob, v)]
    /\ out' = Append(out, "SOLUTION FOUND")
    /\ pc' = "solved"
    /\ UNCHANGED <<C, Q, m, prob, x_opt, shown, fulfilled, goods, total>>

NextExample ==
    Construct \/ SolveRecorded \/ ShowSolution \/ ShowFulfilled \/ ShowTotals

SpecExample == InitExample /\ [][NextExample]_vars


\* ---- properties ---------------------------------------------------------
Range(f) == {f[n] : n \in 1..Len(f)}

AfterShow == pc \in {"shown", "fulfilled", "done"}

AllZero(A) == \A r \in 1..Len(A) : \A g \in 1..Len(A[r]) : A[r][g] = 0

EveryRowPositive(A) == \A r \in 1..Len(A) : \E g \in 1..Len(A[r]) : A[r][g] > 0

Zeros(n) == [g \in 1..n |-> 0]

\* C1: on an optimal run the solution vector the notebook displays (x.value
\* converted to integers) fulfils every requirement:
\* sum_i Q[j][i] * shown[i] >= m[j] for every requirement j.
C1_ShownFulfilsRequirements ==
    (AfterShow /\ status = "optimal") =>
        \A r \in 1..Len(Q) : Dot(Q[r], shown) >= m[r]

\* C2: in the recorded run the displayed solution is
\* [0,0,1,0,8,25,0,29,0,0], its cost C.shown is 300 and Q.shown is
\* [75,94,91,43,75], each at least the requirement.
C2_RecordedSolutionGivesRecordedTotals ==
    pc = "done" =>
        /\ shown = RecordedShown
        /\ Dot(C, shown) = RecordedObjective
        /\ MatVec(Q, shown) = <<75, 94, 91, 43, 75>>
        /\ \A r \in 1..Len(Q) : MatVec(Q, shown)[r] >= m[r]

\* C3: when every cost is 1, the displayed number of goods equals the
\* displayed total cost (up to the solver's noise on the cost).
C3_GoodsEqualCostForUnitCosts ==
    (pc = "done" /\ \A g \in 1..Len(C) : C[g] = 1) => goods = Round(total)

\* C4: with Q all zero (and positive requirements) the solve cell reports a
\* non-optimal status, prints ERROR, and no x_optimal line is printed.
C4_ZeroQTakesErrorBranch ==
    (AllZero(Q) /\ status # "none") =>
        /\ status = "infeasible"
        /\ "ERROR" \in Range(out)
        /\ "SOLUTION FOUND" \notin Range(out)
        /\ "x_optimal" \notin Range(out)
        /\ shown = <<>>

C4_Witness == AllZero(Q) /\ pc = "crashed" /\ \A r \in 1..Len(m) : m[r] > 0

C6_OptimumMonotoneInTarget ==
    (pc = "solved" /\ status = "optimal") =>
        \A r \in 1..Len(prob.b) :
            LET p2 == [prob EXCEPT !.b[r] = @ + 1]
            IN  \A v \in Box(p2) :
                    ConstraintsHold(p2, v) => Scale * Objective(p2, v) >= sol.val

C6_Witness ==
    /\ pc = "solved" /\ status = "optimal"
    /\ \E r \in 1..Len(prob.b) :
          LET p2 == [prob EXCEPT !.b[r] = @ + 1]
          IN  /\ FeasibleSet(p2) # {}
              /\ Scale * OptValue(p2) > sol.val

\* C7: with all requirements zero (positive costs, Q >= 0) the solver
\* returns x = 0 with objective value 0, and every other point costs more.
C7_ZeroTargetGivesZero ==
    (pc = "solved" /\ \A r \in 1..Len(m) : m[r] = 0) =>
        /\ status = "optimal"
        /\ x = Zeros(Len(C))
        /\ sol.val = 0
        /\ \A v \in [1..Len(C) -> 0..1] :
              v # Zeros(Len(C)) =>
                  (ConstraintsHold(prob, v) /\ Objective(prob, v) > 0)

C7_Witness ==
    /\ pc = "solved" /\ x = Zeros(Len(C))
    /\ \A r \in 1..Len(m) : m[r] = 0
    /\ ~ AllZero(Q)

C8_Shapes ==
    pc # "start" =>
        /\ Len(C) = i /\ \A g \in 1..i : C[g] \in 1..9
        /\ Len(Q) = j
        /\ \A r \in 1..j : Len(Q[r]) = i /\ \A g \in 1..i : Q[r][g] \in {0, 1, 2}
        /\ Len(m) = j /\ \A r \in 1..j : m[r] \in 1..99

\* C8: the generator yields N costs in 1..9, an M x N matrix Q over {0,1,2}
\* and M requirements in 1..99, and no later step changes them.
C8_ParametersGeneratedOnce ==
    /\ []C8_Shapes
    /\ [][pc # "start" => UNCHANGED <<C, Q, m>>]_vars

C8_Witness == pc = "done" /\ Len(C) = i /\ Len(Q) = j /\ Len(m) = j

\* C9: the displayed integer vector is the nearest-integer vector of the
\* solver output, so the displayed vector and goods count agree with the
\* fulfilled-requirements and total-cost lines.
C9_CastKeepsSolution ==
    pc = "done" =>
        /\ shown = RoundEach(x)
        /\ goods = Sum(RoundEach(x))
        /\ \A r \in 1..Len(Q) : fulfilled[r] = 100 * Dot(Q[r], shown)
        /\ Round(total) = Dot(C, shown)

\* C10: for generated parameters the problem is never unbounded, and it is
\* optimal (SOLUTION FOUND) exactly when every row of Q has a positive
\* entry, infeasible (ERROR) exactly when some row is all zero.
C10_OptimalIffEveryRowPositive ==
    status # "none" =>
        /\ status # "unbounded"
        /\ status = "optimal" <=> EveryRowPositive(Q)
        /\ status = "infeasible" <=> ~ EveryRowPositive(Q)
        /\ out[2] = "SOLUTION FOUND" <=> EveryRowPositive(Q)
        /\ out[2] = "ERROR" <=> ~ EveryRowPositive(Q)

C10_Witness ==
    /\ status = "optimal" /\ out[2] = "SOLUTION FOUND"
    /\ \E r \in 1..Len(Q) : \E g \in 1..Len(Q[r]) : Q[r][g] = 0

=============================================================================
